---- MODULE Spec2Model ----
(***************************************************************************)
(* Model of the per-frame simulation of galaga_bevy (src/src/main.rs,      *)
(* src/src/player_input.rs): the four Update systems, the deferred         *)
(* command buffers they write, and the world the buffers are applied to.   *)
(*                                                                         *)
(* Positions are Vec3 of f32 in the code; every coordinate the program     *)
(* produces from the inputs used here is a whole number, so they are       *)
(* modelled as integers.  A frame's time step is given in milliseconds.    *)
(***************************************************************************)
EXTENDS Integers, Sequences, FiniteSets

VARIABLES
    entities,         \* the world: handle (index) -> entity record
    player_position,  \* the PlayerPosition resource
    buffers,          \* per system: the commands it queued this frame
    ran,              \* the Update systems that already ran this frame
    visited,          \* handles despawn_out_of_bounds_entities tested this frame
    tick              \* frames completed

vars == <<entities, player_position, buffers, ran, visited, tick>>

----------------------------------------------------------------------------
(* Program constants *)

move_delta == 10
BulletSpeed == 300
BulletOffsetY == 50
BulletLimitY == 800
CollisionRadius == 25
container_width == 600
container_height == 400
PlayerStartX == 0
PlayerStartY == -250
FlyStartX == -300
FlyStartY == 100

(* Bounds of the model *)

MaxTicks == 4        \* frames explored
BurstLen == 30       \* events of one held key delivered in a long frame
MaxShots == 2        \* bullets fired in a run of frames without end

----------------------------------------------------------------------------
(* Vectors and entities *)

Vec3(a, b, c) == [x |-> a, y |-> b, z |-> c]

ZERO == Vec3(0, 0, 0)

VecAdd(p, q) == Vec3(p.x + q.x, p.y + q.y, p.z + q.z)

\* Squared Euclidean distance; Vec3::distance is its square root.
DistanceSquared(p, q) ==
    (p.x - q.x) * (p.x - q.x) + (p.y - q.y) * (p.y - q.y) + (p.z - q.z) * (p.z - q.z)

\* is_colliding with the comparison made inclusive.
is_colliding_inclusive(pos1, pos2, radius) == DistanceSquared(pos1, pos2) <= radius * radius

\* pos1.distance(pos2) < radius, for radius >= 0, without the square root.
is_colliding(pos1, pos2, radius) == DistanceSquared(pos1, pos2) < radius * radius

\* age: milliseconds of advance a bullet has received (bookkeeping of the model).
Ent(k, p) == [kind |-> k, live |-> TRUE, pos |-> p, age |-> 0]

\* What is left of a handle once its entity is despawned.
Removed(e) == [kind |-> e.kind, live |-> FALSE, pos |-> ZERO, age |-> 0]

\* HasGameEntity as it would be were bullets spawned with a GameEntity too.
HasGameEntity_any(e) == e.kind \in {"Player", "Fly", "Bullet"}

\* Components by kind of entity.
HasTransform(e) == e.kind # "Audio"
HasGameEntity(e) == e.kind \in {"Player", "Fly"}
HasBullet(e) == e.kind = "Bullet"
HasOutlineContainer(e) == e.kind = "Outline"

Handles == 1..Len(entities)

Live(i) == entities[i].live

LiveHandles == {i \in Handles : Live(i)}

----------------------------------------------------------------------------
(* Systems and their command buffers *)

SysInput == "handle_player_input"
SysMove == "move_bullets"
SysCollision == "collision"
SysBounds == "despawn_out_of_bounds_entities"

\* The Update systems, in the order main registers them.
UpdateSystems == <<SysInput, SysMove, SysCollision, SysBounds>>

Systems == {UpdateSystems[i] : i \in 1..Len(UpdateSystems)}

SpawnCmd(k, p) == [op |-> "spawn", kind |-> k, pos |-> p, e |-> 0]

DespawnCmd(i) == [op |-> "despawn", kind |-> "", pos |-> ZERO, e |-> i]

EmptyBuffers == [s \in Systems |-> <<>>]

\* Handles system s asked to despawn this frame.
DespawnsBy(s) == {buffers[s][j].e : j \in {n \in 1..Len(buffers[s]) : buffers[s][n].op = "despawn"}}

----------------------------------------------------------------------------
(* Startup: setup_scene and music, commands applied *)

Init ==
    /\ entities = << Ent("Camera", ZERO),
                     Ent("Outline", Vec3(0, 0, 0)),
                     Ent("Player", Vec3(PlayerStartX, PlayerStartY, 0)),
                     Ent("Fly", Vec3(FlyStartX, FlyStartY, 0)),
                     Ent("Audio", ZERO) >>
    /\ player_position = Vec3(PlayerStartX, PlayerStartY, 0)
    /\ buffers = EmptyBuffers
    /\ ran = {}
    /\ visited = {}
    /\ tick = 0

----------------------------------------------------------------------------
(* Inputs of a frame *)

Keys == {"ArrowLeft", "ArrowRight", "Space", "Other"}

Arrows == {"ArrowLeft", "ArrowRight"}

\* The keyboard events of an ordinary frame: none, or one key.
ShortBatches == {<<>>} \cup {<<k>> : k \in Keys}

\* A held arrow key repeating through a long frame.
Burst(k) == [i \in 1..BurstLen |-> k]

\* The event batches a frame may deliver.
Batches == ShortBatches \cup {Burst(k) : k \in Arrows} \cup {<<"Space", "Space">>}

\* Frame time steps, in milliseconds (each makes bullet_speed * delta_time whole).
DtChoices == {50, 1000, 2000}

----------------------------------------------------------------------------
(* handle_player_input *)

\* KeyOffsetX with the two arrows exchanged.
KeyOffsetX_swapped(key) ==
    CASE key = "ArrowLeft" -> move_delta
      [] key = "ArrowRight" -> -move_delta
      [] OTHER -> 0

\* One event's contribution to move_offset.x.
KeyOffsetX(key) ==
    CASE key = "ArrowLeft" -> -move_delta
      [] key = "ArrowRight" -> move_delta
      [] OTHER -> 0

RECURSIVE SumOffsets(_, _)
SumOffsets(batch, n) ==
    IF n = 0 THEN 0 ELSE SumOffsets(batch, n - 1) + KeyOffsetX(batch[n])

\* move_offset with the arrows added up on the wrong axis.
MoveOffset_y(batch) == Vec3(0, SumOffsets(batch, Len(batch)), 0)

\* move_offset after the event loop: the arrows add up on x alone.
MoveOffset(batch) == Vec3(SumOffsets(batch, Len(batch)), 0, 0)

\* shoot set by any key event at all.
Shoot_any_key(batch) == Len(batch) > 0

\* shoot after the event loop.
Shoot(batch) == \E n \in 1..Len(batch) : batch[n] = "Space"

\* bullet_starting_position without the launch offset.
bullet_starting_position_no_offset(pp) == pp

\* shoot_bullet: where the bullet is spawned.
bullet_starting_position(pp) == VecAdd(pp, Vec3(0, BulletOffsetY, 0))

\* The commands of the shoot branch: the bullet, then the shot's sound.
shoot_bullet(pp) == << SpawnCmd("Bullet", bullet_starting_position(pp)), SpawnCmd("Audio", ZERO) >>

\* MovePlayers with the Transform left alone: only the resource would move.
MovePlayers_none(ents, off) == ents

\* MovePlayers done by despawning the player and spawning it anew at the new place.
MovePlayers_respawn(ents, off) ==
    [i \in 1..Len(ents) |->
        IF ents[i].live /\ ents[i].kind = "Player" THEN Removed(ents[i]) ELSE ents[i]]
    \o SelectSeq([i \in 1..Len(ents) |-> [ents[i] EXCEPT !.pos = VecAdd(@, off)]],
                 LAMBDA e : e.live /\ e.kind = "Player")

\* The query loop of the move branch: every GameEntity of type Player is shifted.
MovePlayers(ents, off) ==
    [i \in 1..Len(ents) |->
        IF ents[i].live /\ HasGameEntity(ents[i]) /\ ents[i].kind = "Player"
        THEN [ents[i] EXCEPT !.pos = VecAdd(@, off)]
        ELSE ents[i]]

handle_player_input(batch) ==
    /\ SysInput \notin ran
    /\ LET off == MoveOffset(batch)
           pp == IF off # ZERO THEN VecAdd(player_position, off) ELSE player_position
       IN  /\ player_position' = pp
           /\ entities' = IF off # ZERO THEN MovePlayers(entities, off) ELSE entities
           /\ buffers' = [buffers EXCEPT ![SysInput] =
                             IF Shoot(batch) THEN shoot_bullet(pp) ELSE <<>>]
    /\ ran' = ran \cup {SysInput}
    /\ UNCHANGED <<visited, tick>>

----------------------------------------------------------------------------
(* move_bullets *)

\* AdvanceY with the sign of the step turned: bullets fall.
AdvanceY_down(y, dt) == y - (BulletSpeed * dt) \div 1000

\* AdvanceY with the time step left out: a fixed step per frame.
AdvanceY_per_frame(y, dt) == y + BulletSpeed

\* transform.translation.y += bullet_speed.0 * delta_time, dt in milliseconds.
AdvanceY(y, dt) == y + (BulletSpeed * dt) \div 1000

\* The loop of move_bullets with its body left out: no bullet advances.
AdvanceBullets_none(ents, dt) == ents

\* The loop of move_bullets: every live bullet advances by the frame's step.
AdvanceBullets(ents, dt) ==
    [i \in 1..Len(ents) |->
        IF ents[i].live /\ HasBullet(ents[i])
        THEN [ents[i] EXCEPT !.pos.y = AdvanceY(@, dt), !.age = @ + dt]
        ELSE ents[i]]

\* OffScreen with the limit compared against the wrong coordinate.
OffScreen_x(pos) == pos.x > BulletLimitY

\* The travel-limit test made on a bullet right after it is advanced.
OffScreen(pos) == pos.y > BulletLimitY

RECURSIVE OffScreenCmds(_, _)
OffScreenCmds(ents, i) ==
    IF i > Len(ents) THEN <<>>
    ELSE (IF ents[i].live /\ HasBullet(ents[i]) /\ OffScreen(ents[i].pos)
          THEN <<DespawnCmd(i)>> ELSE <<>>) \o OffScreenCmds(ents, i + 1)

move_bullets(dt) ==
    /\ SysMove \notin ran
    /\ entities' = AdvanceBullets(entities, dt)
    /\ buffers' = [buffers EXCEPT ![SysMove] = OffScreenCmds(AdvanceBullets(entities, dt), 1)]
    /\ ran' = ran \cup {SysMove}
    /\ UNCHANGED <<player_position, visited, tick>>

----------------------------------------------------------------------------
(* collision *)

\* The targets bullet b matches: live GameEntity entities closer than the radius.
Matches(b) ==
    {t \in LiveHandles : /\ HasGameEntity(entities[t])
                         /\ is_colliding(entities[b].pos, entities[t].pos, CollisionRadius)}

\* The inner loop breaks at the first match.
FirstMatch(b) == CHOOSE t \in Matches(b) : \A u \in Matches(b) : t <= u

\* CollisionCmds with the break left out: the inner loop goes on after a match.
RECURSIVE AllMatchCmds(_, _)
AllMatchCmds(b, t) ==
    IF t > Len(entities) THEN <<>>
    ELSE (IF t \in Matches(b) THEN <<DespawnCmd(b), DespawnCmd(t)>> ELSE <<>>)
         \o AllMatchCmds(b, t + 1)

RECURSIVE CollisionCmds_no_break(_)
CollisionCmds_no_break(b) ==
    IF b > Len(entities) THEN <<>>
    ELSE (IF Live(b) /\ HasBullet(entities[b]) THEN AllMatchCmds(b, 1) ELSE <<>>)
         \o CollisionCmds_no_break(b + 1)

RECURSIVE CollisionCmds(_)
CollisionCmds(b) ==
    IF b > Len(entities) THEN <<>>
    ELSE (IF Live(b) /\ HasBullet(entities[b]) /\ Matches(b) # {}
          THEN <<DespawnCmd(b), DespawnCmd(FirstMatch(b))>> ELSE <<>>) \o CollisionCmds(b + 1)

collision ==
    /\ SysCollision \notin ran
    /\ buffers' = [buffers EXCEPT ![SysCollision] = CollisionCmds(1)]
    /\ ran' = ran \cup {SysCollision}
    /\ UNCHANGED <<entities, player_position, visited, tick>>

----------------------------------------------------------------------------
(* despawn_out_of_bounds_entities *)

\* OutOfBounds with the container's edge itself counted as outside.
OutOfBounds_edge(pos) ==
    \/ pos.x <= -container_width
    \/ pos.x >= container_width
    \/ pos.y <= -container_height
    \/ pos.y >= container_height

OutOfBounds(pos) ==
    \/ pos.x < -container_width
    \/ pos.x > container_width
    \/ pos.y < -container_height
    \/ pos.y > container_height

\* The entities the query yields: everything live that has a Transform.
BoundsQuery == {i \in LiveHandles : HasTransform(entities[i])}

RECURSIVE BoundsCmds(_)
BoundsCmds(i) ==
    IF i > Len(entities) THEN <<>>
    ELSE (IF /\ i \in BoundsQuery
             /\ ~HasOutlineContainer(entities[i])
             /\ OutOfBounds(entities[i].pos)
          THEN <<DespawnCmd(i)>> ELSE <<>>) \o BoundsCmds(i + 1)

despawn_out_of_bounds_entities ==
    /\ SysBounds \notin ran
    /\ buffers' = [buffers EXCEPT ![SysBounds] = BoundsCmds(1)]
    /\ visited' = BoundsQuery
    /\ ran' = ran \cup {SysBounds}
    /\ UNCHANGED <<entities, player_position, tick>>

----------------------------------------------------------------------------
(* End of the Update schedule: the command buffers are applied *)

\* Despawn by position in the entity list: the slot is taken out, so the same
\* handle then names the next entity.
Despawn_by_slot(ents, i) ==
    IF i \in 1..Len(ents)
    THEN SubSeq(ents, 1, i - 1) \o SubSeq(ents, i + 1, Len(ents))
    ELSE ents

\* World::despawn: an entity that no longer exists is left alone.
Despawn(ents, i) ==
    IF i \in 1..Len(ents) /\ ents[i].live
    THEN [ents EXCEPT ![i] = Removed(@)]
    ELSE ents

ApplyCmd(ents, c) ==
    IF c.op = "spawn" THEN Append(ents, Ent(c.kind, c.pos)) ELSE Despawn(ents, c.e)

RECURSIVE ApplyCmds(_, _)
ApplyCmds(ents, cmds) ==
    IF cmds = <<>> THEN ents ELSE ApplyCmds(ApplyCmd(ents, Head(cmds)), Tail(cmds))

\* All buffers, system by system in registration order.
RECURSIVE AllCmds(_)
AllCmds(n) ==
    IF n > Len(UpdateSystems) THEN <<>> ELSE buffers[UpdateSystems[n]] \o AllCmds(n + 1)

ApplyDeferred ==
    /\ ran = Systems
    /\ entities' = ApplyCmds(entities, AllCmds(1))
    /\ buffers' = EmptyBuffers
    /\ ran' = {}
    /\ visited' = {}
    /\ tick' = tick + 1
    /\ UNCHANGED player_position

----------------------------------------------------------------------------
(* The frame loop: the four systems in any order, then the buffers *)

Next ==
    \/ \E batch \in Batches : tick < MaxTicks /\ handle_player_input(batch)
    \/ \E dt \in DtChoices : tick < MaxTicks /\ move_bullets(dt)
    \/ tick < MaxTicks /\ collision
    \/ tick < MaxTicks /\ despawn_out_of_bounds_entities
    \/ ApplyDeferred

Spec == Init /\ [][Next]_vars

----------------------------------------------------------------------------
(* The end-to-end scenario: ten frames with one ArrowLeft event each, then  *)
(* one frame with one Space event; time steps and system order stay free.   *)

Script == [i \in 1..10 |-> <<"ArrowLeft">>] \o << <<"Space">> >>

NextE2E ==
    \/ tick < Len(Script) /\ handle_player_input(Script[tick + 1])
    \/ \E dt \in DtChoices : tick < Len(Script) /\ move_bullets(dt)
    \/ tick < Len(Script) /\ collision
    \/ tick < Len(Script) /\ despawn_out_of_bounds_entities
    \/ ApplyDeferred

SpecE2E == Init /\ [][NextE2E]_vars

----------------------------------------------------------------------------
(* One frame over worlds in which a bullet has several targets in range.    *)
(* setup_scene places a single Fly, far from the Player, so the scene main  *)
(* builds never has two targets within the radius of one bullet; here the   *)
(* world holds two flies, placed as add_game_entity and spawn_fly place     *)
(* them, and two bullets in flight above the player's starting column.      *)

PassFlies == {Vec3(-10, 100, 0), Vec3(10, 100, 0), Vec3(0, 150, 0)}

\* A bullet fired from x = 0 that has flown for age milliseconds.
BulletInFlight(age) ==
    [kind |-> "Bullet", live |-> TRUE,
     pos |-> Vec3(PlayerStartX, AdvanceY(PlayerStartY + BulletOffsetY, age), 0),
     age |-> age]

PassAges == {1000, 1100}

InitPass ==
    /\ \E f1 \in PassFlies, f2 \in PassFlies, a1 \in PassAges, a2 \in PassAges :
          /\ f1 # f2
          /\ a1 # a2
          /\ entities = << Ent("Camera", ZERO),
                           Ent("Outline", Vec3(0, 0, 0)),
                           Ent("Player", Vec3(PlayerStartX, PlayerStartY, 0)),
                           Ent("Fly", f1),
                           Ent("Fly", f2),
                           Ent("Audio", ZERO),
                           BulletInFlight(a1),
                           BulletInFlight(a2) >>
    /\ player_position = Vec3(PlayerStartX, PlayerStartY, 0)
    /\ buffers = EmptyBuffers
    /\ ran = {}
    /\ visited = {}
    /\ tick = MaxTicks - 1

SpecPass == InitPass /\ [][Next]_vars

----------------------------------------------------------------------------
(* Frames without end. The app runner (main.rs:338, App::run) keeps running *)
(* the Update schedule, so a frame that has begun is finished and another   *)
(* one follows: weak fairness of the frame loop. Every time step is         *)
(* positive. To keep the world finite the player fires MaxShots bullets at  *)
(* most and walks left only as far as the fly's column, and the frames are  *)
(* the long ones of DtChoices.                                              *)

LiveBatches == {<<>>, <<"Space">>, Burst("ArrowLeft")}

\* The time steps of a second or more.
LiveDts == {dt \in DtChoices : dt >= 1000}

\* Bullets fired so far, live or removed.
ShotsFired == Cardinality({i \in Handles : entities[i].kind = "Bullet"})

\* The batches the run still delivers.
Delivered(batch) ==
    /\ Shoot(batch) => ShotsFired < MaxShots
    /\ MoveOffset(batch) # ZERO => player_position.x > FlyStartX

\* ApplyDeferred in a run whose frames are not counted.
ApplyDeferredLive ==
    /\ ran = Systems
    /\ entities' = ApplyCmds(entities, AllCmds(1))
    /\ buffers' = EmptyBuffers
    /\ ran' = {}
    /\ visited' = {}
    /\ UNCHANGED <<player_position, tick>>

NextLive ==
    \/ \E batch \in LiveBatches : Delivered(batch) /\ handle_player_input(batch)
    \/ \E dt \in LiveDts : move_bullets(dt)
    \/ collision
    \/ despawn_out_of_bounds_entities
    \/ ApplyDeferredLive

SpecLive == Init /\ [][NextLive]_vars /\ WF_vars(NextLive)

----------------------------------------------------------------------------
(* Helpers of the properties *)

\* A step in which system s runs.
Runs(s) == s \notin ran /\ s \in ran'

LiveOfKind(k) == {i \in LiveHandles : entities[i].kind = k}

\* Number of requests to despawn handle i that wait in the buffers.
RECURSIVE CountDespawns(_, _)
CountDespawns(cmds, i) ==
    IF cmds = <<>> THEN 0
    ELSE (IF Head(cmds).op = "despawn" /\ Head(cmds).e = i THEN 1 ELSE 0)
         + CountDespawns(Tail(cmds), i)

\* Handles some system asked to despawn this frame.
Requested == UNION {DespawnsBy(s) : s \in Systems}

\* The spawn commands waiting in the buffers.
PendingSpawns == SelectSeq(AllCmds(1), LAMBDA c : c.op = "spawn")

----------------------------------------------------------------------------
(* C1: in every reachable state the edges of the player's 20x20 footprint  *)
(* (x-10, x+10, y-10, y+10), taken from PlayerPosition and from every live *)
(* Player entity, lie within [-600, 600] on x and [-400, 400] on y.        *)
C1_PlayerEdgesInsideArena ==
    LET Inside(p) == /\ -600 <= p.x - 10 /\ p.x + 10 <= 600
                     /\ -400 <= p.y - 10 /\ p.y + 10 <= 400
    IN  /\ Inside(player_position)
        /\ \A i \in LiveOfKind("Player") : Inside(entities[i].pos)

(* C2: in every frame the systems run in the order handle_player_input,    *)
(* move_bullets, collision, despawn_out_of_bounds_entities: a system runs  *)
(* only when the one registered before it has already run in that frame.   *)
C2_SystemsRunInRegistrationOrder ==
    [][ /\ Runs(SysMove) => SysInput \in ran
        /\ Runs(SysCollision) => SysMove \in ran
        /\ Runs(SysBounds) => SysCollision \in ran ]_vars

(* C3: a collision pass asks to remove a bullet and a target whenever they *)
(* are closer than 25, and asks to remove nothing else: every removal it   *)
(* asks for is of a bullet or a target with a partner closer than 25.  At  *)
(* distance 24 the test matches; at 25 and at 26 it does not.              *)
C3_CollisionThreshold ==
    /\ is_colliding(Vec3(0, 0, 0), Vec3(0, 24, 0), 25)
    /\ ~is_colliding(Vec3(0, 0, 0), Vec3(0, 25, 0), 25)
    /\ ~is_colliding(Vec3(0, 0, 0), Vec3(0, 26, 0), 25)
    /\ [][ Runs(SysCollision) =>
             LET D == {buffers'[SysCollision][j].e : j \in 1..Len(buffers'[SysCollision])}
                 B == LiveOfKind("Bullet")
                 T == LiveOfKind("Player") \cup LiveOfKind("Fly")
                 Near(b, t) == DistanceSquared(entities[b].pos, entities[t].pos) < 625
             IN  /\ \A b \in B, t \in T : Near(b, t) => b \in D /\ t \in D
                 /\ \A b \in B : b \in D => \E t \in T : Near(b, t)
                 /\ \A t \in T : t \in D => \E b \in B : Near(b, t)
                 /\ D \subseteq B \cup T
                 /\ \A j \in 1..Len(buffers'[SysCollision]) :
                        buffers'[SysCollision][j].op = "despawn" ]_vars

\* A collision pass has run and asked to remove a bullet and its target.
C3_Witness == SysCollision \in ran /\ buffers[SysCollision] # <<>>

(* C4: a pass of despawn_out_of_bounds_entities asks to remove exactly the *)
(* live entities with a position, other than the outline container, that  *)
(* have |x| > 600 or |y| > 400; when the frame's commands are applied      *)
(* these are removed, an entity nobody asked to remove stays live, and the *)
(* outline container is never removed.                                     *)
C4_BoundsPass ==
    [][ /\ Runs(SysBounds) =>
             LET D == {buffers'[SysBounds][j].e : j \in 1..Len(buffers'[SysBounds])}
                 Abs(n) == IF n < 0 THEN -n ELSE n
                 Out(i) == Abs(entities[i].pos.x) > 600 \/ Abs(entities[i].pos.y) > 400
             IN  /\ D \subseteq LiveHandles
                 /\ \A i \in LiveHandles :
                      /\ entities[i].kind \notin {"Outline", "Audio"} /\ Out(i) => i \in D
                      /\ ~Out(i) => i \notin D
                      /\ entities[i].kind = "Outline" => i \notin D
        /\ (ran = Systems /\ ran' = {}) =>
             \A i \in LiveHandles :
                 /\ i \in DespawnsBy(SysBounds) => ~entities'[i].live
                 /\ i \notin Requested => entities'[i] = entities[i]
        /\ \A i \in LiveOfKind("Outline") : entities'[i].live ]_vars

\* A bounds pass has run and asked to remove an entity, while an entity on the
\* container's edge (a bullet at y = 400 or a player at |x| = 600) was left alone.
C4_Witness ==
    /\ SysBounds \in ran
    /\ buffers[SysBounds] # <<>>

C6_FireSpawnsAboveAnchor ==
    [][ /\ \A batch \in Batches :
             (Runs(SysInput) /\ handle_player_input(batch) /\ Shoot(batch)) =>
               /\ buffers'[SysInput] =
                    << SpawnCmd("Bullet", Vec3(player_position'.x,
                                               player_position'.y + 50,
                                               player_position'.z)),
                       SpawnCmd("Audio", ZERO) >>
               /\ Len(entities') = Len(entities)
               /\ \A i \in Handles :
                      entities[i].kind # "Player" => entities'[i] = entities[i]
               /\ MoveOffset(batch) = ZERO =>
                      entities' = entities /\ player_position' = player_position
        /\ (ran = Systems /\ ran' = {}) =>
             LET New == (Len(entities) + 1)..Len(entities')
                 NewBullets == {j \in New : entities'[j].kind = "Bullet"}
             IN  /\ Cardinality(NewBullets) <= 1
                 /\ Cardinality(NewBullets) = 1 <=> buffers[SysInput] # <<>>
                 /\ \A j \in New : entities'[j].kind \in {"Bullet", "Audio"}
                 /\ \A j \in NewBullets :
                      /\ entities'[j].live
                      /\ entities'[j].pos = Vec3(player_position.x,
                                                 player_position.y + 50,
                                                 player_position.z)
                 /\ \A i \in Handles : entities'[i].live => entities'[i] = entities[i]
      ]_vars

\* A shot has been queued from a position other than the starting one.
C6_Witness ==
    /\ SysInput \in ran
    /\ buffers[SysInput] # <<>>
    /\ player_position.x # PlayerStartX

(* C7: one run of move_bullets with time step dt (milliseconds) adds       *)
(* BulletSpeed * dt / 1000 to the y of every live bullet and leaves its x  *)
(* and z, and every other entity, unchanged; so a live bullet that has     *)
(* been advanced for age milliseconds in all is at its spawn height plus   *)
(* 300 * age / 1000, and one second from y = 0 gives y = 300.              *)
C7_AdvanceIsLinear ==
    /\ AdvanceY(0, 1000) = 300
    /\ [](\A i \in LiveOfKind("Bullet") :
            1000 * entities[i].pos.y
              = 1000 * (PlayerStartY + BulletOffsetY) + 300 * entities[i].age)
    /\ [][ \A dt \in DtChoices :
             (Runs(SysMove) /\ move_bullets(dt)) =>
               /\ Len(entities') = Len(entities)
               /\ \A i \in Handles :
                    IF Live(i) /\ entities[i].kind = "Bullet"
                    THEN /\ entities'[i].live
                         /\ entities'[i].pos.x = entities[i].pos.x
                         /\ entities'[i].pos.z = entities[i].pos.z
                         /\ 1000 * entities'[i].pos.y
                              = 1000 * entities[i].pos.y + BulletSpeed * dt
                    ELSE entities'[i] = entities[i]
               /\ player_position' = player_position ]_vars

\* A live bullet has been advanced in more than one frame.
C7_Witness ==
    \E i \in LiveOfKind("Bullet") : entities[i].age > 0 /\ entities[i].age \notin DtChoices

(* C8 (as amended): after ten frames with one ArrowLeft event each the     *)
(* player, entity and PlayerPosition alike, is at (-100, -250, 0); after   *)
(* the following frame with one Space event exactly one bullet is live,    *)
(* and it is at (-100, -200, 0).                                           *)
C8_EndToEnd ==
    LET PlayerAt(p) == /\ player_position = p
                       /\ LiveOfKind("Player") # {}
                       /\ \A i \in LiveOfKind("Player") : entities[i].pos = p
    IN  /\ (tick = Len(Script) - 1 /\ ran = {}) =>
              PlayerAt(Vec3(-100, -250, 0)) /\ LiveOfKind("Bullet") = {}
        /\ tick = Len(Script) =>
              /\ PlayerAt(Vec3(-100, -250, 0))
              /\ Cardinality(LiveOfKind("Bullet")) = 1
              /\ \A b \in LiveOfKind("Bullet") : entities[b].pos = Vec3(-100, -200, 0)

\* The scenario has run to its end and its bullet is live.
C8_Witness == tick = Len(Script) /\ LiveOfKind("Bullet") # {}

(* C8 (as stated): after the scenario the player is at (-100, -250, 0) and *)
(* exactly one bullet is live, at (0, -200, 0).                            *)
C8_Original ==
    tick = Len(Script) =>
        /\ player_position = Vec3(-100, -250, 0)
        /\ Cardinality(LiveOfKind("Bullet")) = 1
        /\ \A b \in LiveOfKind("Bullet") : entities[b].pos = Vec3(0, -200, 0)

(* C9: an entity collision asked to remove in a frame is not among the     *)
(* entities despawn_out_of_bounds_entities visits in that frame, and no    *)
(* entity is asked to be removed by both systems in one frame.             *)
C9_CollisionRemovalsUnseenByBounds ==
    /\ DespawnsBy(SysCollision) \cap visited = {}
    /\ DespawnsBy(SysCollision) \cap DespawnsBy(SysBounds) = {}

(* C10: in one collision pass no target is matched by more than one        *)
(* bullet: the targets of the pass's (bullet, target) removals differ.     *)
C10_TargetMatchedOnce ==
    LET cmds == buffers[SysCollision]
        Pairs == {n \in 1..Len(cmds) : n % 2 = 0}
    IN  \A j \in Pairs, k \in Pairs : j # k => cmds[j].e # cmds[k].e


(* C11 (as amended): a collision pass tests each live bullet against the   *)
(* live entities that carry a GameEntity (Player, Fly) and against no      *)
(* other: a bullet is asked to be removed exactly when such an entity is   *)
(* closer than 25, every target asked to be removed is a Player or a Fly,  *)
(* and two bullets closer than 25 to each other are not matched.           *)
C11_TargetsAreGameEntities ==
    [][ Runs(SysCollision) =>
          LET cmds == buffers'[SysCollision]
              D == {cmds[j].e : j \in 1..Len(cmds)}
              Targets == {cmds[j].e : j \in {n \in 1..Len(cmds) : n % 2 = 0}}
              Shooters == {cmds[j].e : j \in {n \in 1..Len(cmds) : n % 2 = 1}}
              G == LiveOfKind("Player") \cup LiveOfKind("Fly")
              Near(a, b) == DistanceSquared(entities[a].pos, entities[b].pos) < 625
          IN  /\ Targets \subseteq G
              /\ Shooters \subseteq LiveOfKind("Bullet")
              /\ \A b \in LiveOfKind("Bullet") : b \in D <=> \E t \in G : Near(b, t)
              /\ \A b \in LiveOfKind("Bullet"), c \in LiveOfKind("Bullet") :
                    (b # c /\ Near(b, c) /\ ~\E t \in G : Near(b, t)) => b \notin D ]_vars

\* A collision pass has run over two live bullets closer than 25 to each other
\* and has asked for neither to be removed.
C11_Witness ==
    /\ SysCollision \in ran
    /\ \E b \in LiveOfKind("Bullet"), c \in LiveOfKind("Bullet") :
          /\ b # c
          /\ DistanceSquared(entities[b].pos, entities[c].pos) < 625
          /\ b \notin DespawnsBy(SysCollision)
          /\ c \notin DespawnsBy(SysCollision)

(* C11 (as stated): a collision pass asks to remove both of any two        *)
(* distinct live bullets that are closer than 25 to each other.            *)
C11_Original ==
    [][ Runs(SysCollision) =>
          LET D == {buffers'[SysCollision][j].e : j \in 1..Len(buffers'[SysCollision])}
          IN  \A b \in LiveOfKind("Bullet"), c \in LiveOfKind("Bullet") :
                (b # c /\ DistanceSquared(entities[b].pos, entities[c].pos) < 625)
                   => b \in D /\ c \in D ]_vars


(* C12: in one collision pass each bullet is asked to be removed with at   *)
(* most one target: of the targets closer than 25 to it, only the earliest *)
(* in iteration order is asked to be removed for it, and another target in *)
(* range is asked to be removed only as the earliest match of some other   *)
(* bullet; the targets nobody asked to remove stay live when the frame's   *)
(* commands are applied.                                                   *)
C12_OneTargetPerBullet ==
    [][ /\ Runs(SysCollision) =>
             LET cmds == buffers'[SysCollision]
                 Odd == {n \in 1..Len(cmds) : n % 2 = 1}
                 G == LiveOfKind("Player") \cup LiveOfKind("Fly")
                 N(b) == {t \in G : DistanceSquared(entities[b].pos, entities[t].pos) < 625}
                 Earliest(b) == {t \in N(b) : \A u \in N(b) : t <= u}
             IN  /\ Len(cmds) % 2 = 0
                 /\ \A j \in Odd, k \in Odd : j # k => cmds[j].e # cmds[k].e
                 /\ \A j \in Odd : /\ cmds[j].e \in LiveOfKind("Bullet")
                                   /\ cmds[j + 1].e \in Earliest(cmds[j].e)
                 /\ \A b \in LiveOfKind("Bullet") :
                        N(b) # {} => \E j \in Odd : cmds[j].e = b
                 /\ \A b \in LiveOfKind("Bullet"), t \in G :
                        (t \in N(b) /\ t \notin Earliest(b)
                           /\ ~\E c \in LiveOfKind("Bullet") : t \in Earliest(c))
                        => \A j \in 1..Len(cmds) : cmds[j].e # t
        /\ (ran = Systems /\ ran' = {}) =>
             \A i \in LiveHandles : i \notin Requested => entities'[i].live ]_vars

\* A collision pass has run, before any other system of the frame, over a bullet
\* with two targets in range, and has asked to remove exactly one of them.
C12_Witness ==
    /\ ran = {SysCollision}
    /\ \E b \in LiveOfKind("Bullet") :
         LET N == {t \in LiveOfKind("Fly") :
                      DistanceSquared(entities[b].pos, entities[t].pos) < 625}
         IN  /\ Cardinality(N) >= 2
             /\ Cardinality(N \cap DespawnsBy(SysCollision)) = 1


(* C13: between frames (the frame's commands applied) no live bullet has   *)
(* y > 800: move_bullets asks to remove exactly the live bullets whose y   *)
(* exceeds 800 once advanced, and they are removed when that frame's       *)
(* commands are applied.                                                   *)
C13_TravelLimit ==
    /\ [](ran = {} => \A b \in LiveOfKind("Bullet") : entities[b].pos.y <= 800)
    /\ [][ /\ Runs(SysMove) =>
                LET D == {buffers'[SysMove][j].e : j \in 1..Len(buffers'[SysMove])}
                IN  \A b \in Handles :
                       b \in D <=> (Live(b) /\ entities[b].kind = "Bullet"
                                      /\ entities'[b].pos.y > 800)
           /\ (ran = Systems /\ ran' = {}) =>
                \A b \in DespawnsBy(SysMove) : ~entities'[b].live ]_vars

\* move_bullets has advanced a bullet past y = 800 and asked to remove it.
C13_Witness ==
    /\ SysMove \in ran
    /\ \E b \in LiveOfKind("Bullet") :
          entities[b].pos.y > 800 /\ b \in DespawnsBy(SysMove)


(* C14: in every reachable state there is at most one live Player entity,  *)
(* and the position of a live Player entity equals PlayerPosition.         *)
C14_AnchorMirrorsPlayer ==
    /\ Cardinality(LiveOfKind("Player")) <= 1
    /\ \A p \in LiveOfKind("Player") : entities[p].pos = player_position

\* Between frames the player is live away from its starting place, and a bullet
\* has been fired and advanced.
C14_Witness ==
    /\ ran = {}
    /\ LiveOfKind("Player") # {}
    /\ player_position.x # PlayerStartX
    /\ \E b \in LiveOfKind("Bullet") : entities[b].age > 0


(* C15: entity lifecycle is monotone. A handle is live or removed; no step *)
(* makes a removed handle live again or takes a handle away; no step       *)
(* changes the kind of a handle; a system by itself neither removes nor    *)
(* creates an entity (the player is moved in place, not spawned anew), and *)
(* no system queues the spawn of a Player or a Fly.                        *)
C15_LifecycleMonotone ==
    [][ /\ Len(entities') >= Len(entities)
        /\ \A i \in Handles :
              /\ entities[i].live \in BOOLEAN
              /\ ~entities[i].live => ~entities'[i].live
              /\ entities'[i].kind = entities[i].kind
        /\ (\E s \in Systems : Runs(s)) =>
              /\ Len(entities') = Len(entities)
              /\ \A i \in Handles : entities'[i].live = entities[i].live
              /\ \A s \in Systems : \A j \in 1..Len(buffers'[s]) :
                    buffers'[s][j].op = "spawn" => buffers'[s][j].kind \in {"Bullet", "Audio"}
      ]_vars

\* A frame in progress in which the player has been moved by the input system,
\* while a handle removed in an earlier frame is still removed.
C15_Witness ==
    /\ SysInput \in ran
    /\ \E h \in Handles : ~entities[h].live
    /\ \E p \in LiveOfKind("Player") : entities[p].pos.x # PlayerStartX


(* C16: a frame step with no arrow key event (no event, or Space only)     *)
(* leaves PlayerPosition and the position of every Player entity as they   *)
(* were, and so does every step of another system; an input step with an   *)
(* arrow key event changes at most the x of PlayerPosition and of the      *)
(* Player entity, never their y or z, and never the position of a Fly or a *)
(* Bullet.                                                                 *)
C16_InputMovesOnlyPlayerX ==
    [][ /\ \A batch \in Batches : handle_player_input(batch) =>
              /\ (~\E n \in 1..Len(batch) : batch[n] \in Arrows) =>
                    /\ player_position' = player_position
                    /\ entities' = entities
              /\ player_position'.y = player_position.y
              /\ player_position'.z = player_position.z
              /\ Len(entities') = Len(entities)
              /\ \A i \in Handles :
                    /\ entities'[i].pos.y = entities[i].pos.y
                    /\ entities'[i].pos.z = entities[i].pos.z
                    /\ entities[i].kind # "Player" => entities'[i].pos = entities[i].pos
        /\ ~Runs(SysInput) =>
              /\ player_position' = player_position
              /\ \A i \in Handles :
                    (entities[i].kind = "Player" /\ entities'[i].live)
                        => entities'[i].pos = entities[i].pos
      ]_vars

\* The second frame: the input system has moved the player while a bullet
\* fired in the first frame and the fly are live.
C16_Witness ==
    /\ tick = 1
    /\ SysInput \in ran
    /\ \E p \in LiveOfKind("Player") : entities[p].pos.x # PlayerStartX
    /\ LiveOfKind("Bullet") # {}
    /\ LiveOfKind("Fly") # {}


\* The bullet spawn commands in a command sequence.
BulletSpawns(cmds) == SelectSeq(cmds, LAMBDA c : c.op = "spawn" /\ c.kind = "Bullet")

(* C17: in one frame at most one bullet is spawned however many Space      *)
(* events the frame delivers, and none without a Space event: the input    *)
(* system queues exactly one bullet spawn when its batch holds a Space     *)
(* event and none otherwise, no other system queues a spawn, and the end   *)
(* of the frame adds exactly the queued bullets to the world.              *)
C17_OneBulletPerFrame ==
    [][ /\ \A batch \in Batches : handle_player_input(batch) =>
              Len(BulletSpawns(buffers'[SysInput])) =
                  IF \E n \in 1..Len(batch) : batch[n] = "Space" THEN 1 ELSE 0
        /\ \A s \in Systems \ {SysInput} : \A j \in 1..Len(buffers'[s]) :
              buffers'[s][j].op # "spawn"
        /\ Len(BulletSpawns(buffers'[SysInput])) <= 1
        /\ (ran = Systems /\ ran' = {}) =>
              Cardinality({i \in (Len(entities) + 1)..Len(entities') :
                              entities'[i].kind = "Bullet"})
                  = Len(BulletSpawns(buffers[SysInput]))
        /\ ~(ran = Systems /\ ran' = {}) => Len(entities') = Len(entities)
      ]_vars

\* The input system has queued its one bullet while an earlier bullet is live.
C17_Witness ==
    /\ SysInput \in ran
    /\ Len(BulletSpawns(buffers[SysInput])) = 1
    /\ LiveOfKind("Bullet") # {}


(* C18: the Player entity is never removed by collision. Every live bullet *)
(* has y >= PlayerPosition.y + 50 = -200, so its distance to a live Player *)
(* is at least 50, beyond the collision radius of 25, and no collision     *)
(* pass asks to despawn a Player.                                          *)
C18_CollisionSparesPlayer ==
    /\ player_position.y = PlayerStartY
    /\ \A b \in LiveOfKind("Bullet") :
          /\ entities[b].pos.y >= player_position.y + BulletOffsetY
          /\ entities[b].pos.y >= -200
          /\ \A p \in LiveOfKind("Player") :
                /\ DistanceSquared(entities[b].pos, entities[p].pos)
                      >= BulletOffsetY * BulletOffsetY
                /\ ~is_colliding(entities[b].pos, entities[p].pos, CollisionRadius)
    /\ \A p \in Handles : entities[p].kind = "Player" => p \notin DespawnsBy(SysCollision)

\* The collision pass has run with a bullet straight above the player at its
\* launch height, the nearest the two ever are.
C18_Witness ==
    /\ SysCollision \in ran
    /\ \E b \in LiveOfKind("Bullet") : \E p \in LiveOfKind("Player") :
          /\ entities[b].pos.x = entities[p].pos.x
          /\ entities[b].pos.y = entities[p].pos.y + BulletOffsetY


(* C19: the player is never lost: in every reachable state exactly one     *)
(* live Player entity exists, and no system has asked to despawn it.       *)
C19_PlayerNeverLost ==
    /\ Cardinality(LiveOfKind("Player")) = 1
    /\ \A p \in Handles : entities[p].kind = "Player" => p \notin Requested


\* The handles a bullet can get in a run of frames without end: each shot
\* spawns the bullet and its sound after the entities of the startup.
BulletSlots == {i \in 1..(Len(UpdateSystems) + 1 + 2 * MaxShots) : i > Len(UpdateSystems) + 1}

IsLiveBullet(h) == h \in Handles /\ entities[h].live /\ entities[h].kind = "Bullet"

(* C20: every bullet that is spawned is eventually removed: when frames    *)
(* keep occurring with a positive time step, a live bullet is despawned    *)
(* after finitely many frames, and once firing has stopped the world       *)
(* stays free of live bullets.                                             *)
C20_BulletsEventuallyRemoved ==
    /\ \A h \in BulletSlots : IsLiveBullet(h) ~> ~IsLiveBullet(h)
    /\ <>[](LiveOfKind("Bullet") = {})

\* Every shot has been fired and every bullet is gone, one of them with the fly.
C20_Witness ==
    /\ ShotsFired = MaxShots
    /\ LiveOfKind("Bullet") = {}
    /\ LiveOfKind("Fly") = {}

====
